---- MODULE Spec2Model ----
\* A model of ssmssh (src/main.go): the bubbletea model's Update function, the
\* three asynchronous commands (regionsCmd, instancesCmd, previewTagsCmd) with
\* their worker goroutine / result channel / deadline race, the spinner tick,
\* and the program loop that feeds messages to Update and runs the returned
\* commands.
\*
\* Go strings are byte sequences: a string is modelled as a sequence of byte
\* values (e.g. "prod" is <<112, 114, 111, 100>>), so that len(s), s[0], the
\* printable range 32..126, strings.ToLower, strings.Contains and
\* strings.Split are computed as the code computes them.
EXTENDS Integers, Sequences, FiniteSets

\* ------------------------------------------------------------------ bounds
\* Longest filter query the model lets the operator type.
MaxFilter == 2
\* Number of asynchronous fetch commands that may be alive at once.
MaxTasks == 2
\* Number of spinnerTick commands that may be sleeping at once.
MaxTicks == 2
\* Number of key presses the model follows once the run is over for the
\* operator: after Update has returned tea.Quit and before tea.QuitMsg arrives,
\* or while the error view is shown (m.err set).
MaxLate == 1
\* Number of spinner frame advances the model follows.
MaxSpin == 2

\* --------------------------------------------------------------- constants
\* type state (iota)
stateProfile == 0
stateRegion == 1
stateInstance == 2
stateDone == 3

\* len(spinnerFrames)
NumSpinnerFrames == 10

\* time.After(15 * time.Second) in regionsCmd and instancesCmd
ListTimeout == 15
\* time.After(5 * time.Second) in previewTagsCmd
PreviewTimeout == 5

\* ----------------------------------------------------------------- strings
sDefault == <<100, 101, 102, 97, 117, 108, 116>>          \* "default"
sProd == <<112, 114, 111, 100>>                           \* "prod"
sUsEast1 == <<117, 115, 45, 101, 97, 115, 116, 45, 49>>   \* "us-east-1"
sUsWest2 == <<117, 115, 45, 119, 101, 115, 116, 45, 50>>  \* "us-west-2"
sI1Web == <<105, 45, 49, 32, 40, 119, 101, 98, 41>>       \* "i-1 (web)"
sI2Db == <<105, 45, 50, 32, 40, 100, 98, 41>>             \* "i-2 (db)"
sI3 == <<105, 45, 51>>                                    \* "i-3"
sI1 == <<105, 45, 49>>                                    \* "i-1"
sI2 == <<105, 45, 50>>                                    \* "i-2"

\* tea.KeyMsg.String() of the keys the model sends
kUp == <<117, 112>>                                       \* "up"
kDown == <<100, 111, 119, 110>>                           \* "down"
kEnter == <<101, 110, 116, 101, 114>>                     \* "enter"
kBackspace == <<98, 97, 99, 107, 115, 112, 97, 99, 101>>  \* "backspace"
kEsc == <<101, 115, 99>>                                  \* "esc"
kCmdQ == <<99, 109, 100, 43, 113>>                        \* "cmd+q"
kCmdC == <<99, 109, 100, 43, 99>>                         \* "cmd+c"
kCtrlC == <<99, 116, 114, 108, 43, 99>>                   \* "ctrl+c"
kJ == <<106>>                                             \* "j"
kK == <<107>>                                             \* "k"
kD == <<100>>                                             \* "d"
kB == <<98>>                                              \* "b"
kW == <<119>>                                             \* "w"
kP == <<112>>                                             \* "p"
kUpperD == <<68>>                                         \* "D"
kEAcute == <<195, 169>>                                   \* "é" (two bytes)

\* The key messages the operator sends.
Keys ==
  {kUp, kDown, kEnter, kBackspace, kEsc, kJ, kP, kD, kB, kEAcute}

\* Every key message the properties quantify over: the keys sent, and keys
\* that take the same paths of Update.
AllKeys ==
  Keys \cup {kK, kW, kUpperD, kCmdQ, kCmdC, kCtrlC}

\* strings.ToLower on one byte (ASCII letters only)
ToLowerByte(c) == IF c >= 65 /\ c <= 90 THEN c + 32 ELSE c

\* strings.ToLower
ToLower(s) == [i \in 1..Len(s) |-> ToLowerByte(s[i])]

\* strings.Contains(s, sub)
Contains(s, sub) ==
  \E i \in 1..(Len(s) - Len(sub) + 1) : SubSeq(s, i, i + Len(sub) - 1) = sub

\* Mutant of SplitFirst: the display entry is used whole.
SplitNone(s) == s

\* Mutant of SplitFirst: the cut falls after the first space, not before it.
SplitKeepSpace(s) ==
  IF \E i \in 1..Len(s) : s[i] = 32
  THEN LET p == CHOOSE i \in 1..Len(s) : s[i] = 32 /\ \A j \in 1..(i - 1) : s[j] # 32
       IN SubSeq(s, 1, p)
  ELSE s

\* strings.Split(s, " ")[0]: the bytes before the first space, the whole
\* string when it holds no space.
SplitFirst(s) ==
  IF \E i \in 1..Len(s) : s[i] = 32
  THEN LET p == CHOOSE i \in 1..Len(s) : s[i] = 32 /\ \A j \in 1..(i - 1) : s[j] # 32
       IN SubSeq(s, 1, p - 1)
  ELSE s

\* Mutant of FilterFrom: the items are compared as they are, not lower-cased.
RECURSIVE FilterFromCaseSensitive(_, _, _)
FilterFromCaseSensitive(list, f, i) ==
  IF i > Len(list) THEN <<>>
  ELSE IF Contains(list[i], f)
       THEN <<list[i]>> \o FilterFromCaseSensitive(list, f, i + 1)
       ELSE FilterFromCaseSensitive(list, f, i + 1)

\* The filter loop of filterList over list[i..]
RECURSIVE FilterFrom(_, _, _)
FilterFrom(list, f, i) ==
  IF i > Len(list) THEN <<>>
  ELSE IF Contains(ToLower(list[i]), f)
       THEN <<list[i]>> \o FilterFrom(list, f, i + 1)
       ELSE FilterFrom(list, f, i + 1)

\* func filterList(list []string, filter string) []string
filterList(list, filter) ==
  IF filter = <<>> THEN list ELSE FilterFrom(list, ToLower(filter), 1)

\* -------------------------------------------------------------------- tags
NoTags == <<>>

\* What getInstanceTags returns for an instance id when the lookup succeeds.
TagsOf(id) ==
  IF id = sI1 THEN <<[Key |-> "Name", Value |-> "web"]>>
  ELSE IF id = sI2 THEN <<[Key |-> "Name", Value |-> "db"]>>
  ELSE NoTags

\* ---------------------------------------------------------------- messages
NoErr == ""

Msg(type, s, list, tags, instanceId, err) ==
  [type |-> type, s |-> s, list |-> list, tags |-> tags,
   instanceId |-> instanceId, err |-> err]

\* tea.KeyMsg whose String() is s
KeyMsg(s) == Msg("key", s, <<>>, NoTags, <<>>, NoErr)
\* struct{ regions []string; err error }
RegionsMsg(regions, err) == Msg("regions", <<>>, regions, NoTags, <<>>, err)
\* struct{ instances []string; err error }
InstancesMsg(instances, err) == Msg("instances", <<>>, instances, NoTags, <<>>, err)
\* struct{ tags []Tag; instanceId string; err error }
PreviewMsg(tags, instanceId, err) == Msg("preview", <<>>, <<>>, tags, instanceId, err)
\* struct{}{} (the spinner tick) and every other message type: the tea.Msg case
TickMsg == Msg("tick", <<>>, <<>>, NoTags, <<>>, NoErr)
NoMsg == Msg("none", <<>>, <<>>, NoTags, <<>>, NoErr)

\* ---------------------------------------------------------------- commands
Cmd(type, profile, region, instanceId) ==
  [type |-> type, profile |-> profile, region |-> region, instanceId |-> instanceId]

NilCmd == Cmd("nil", <<>>, <<>>, <<>>)
Quit == Cmd("quit", <<>>, <<>>, <<>>)
regionsCmd(profile) == Cmd("regions", profile, <<>>, <<>>)
instancesCmd(profile, region) == Cmd("instances", profile, region, <<>>)
previewTagsCmd(profile, region, instanceId) == Cmd("preview", profile, region, instanceId)
spinnerTick == Cmd("tick", <<>>, <<>>, <<>>)

\* ------------------------------------------------------------------ Update
\* One stretch of Update: ret = TRUE when Update returned inside it (with cmd),
\* FALSE when control falls through to the code after it.
Return(m, cmd) == [ret |-> TRUE, m |-> m, cmd |-> cmd]
Continue(m) == [ret |-> FALSE, m |-> m, cmd |-> NilCmd]

\* m.previewLoading = true; m.previewInstanceId = strings.Split(...)[0];
\* return m, previewTagsCmd(...)
TriggerPreview(m) ==
  LET id == SplitFirst(m.filteredInstances[m.cursor + 1])
  IN Return([m EXCEPT !.previewLoading = TRUE, !.previewInstanceId = id],
            previewTagsCmd(m.selectedProfile, m.selectedRegion, id))

\* case "up" (and case "k"): the switch on m.step
CursorUp(m) ==
  IF m.step = stateProfile \/ m.step = stateRegion
  THEN Continue(IF m.cursor > 0 THEN [m EXCEPT !.cursor = @ - 1] ELSE m)
  ELSE IF m.step = stateInstance /\ m.cursor > 0
       THEN TriggerPreview([m EXCEPT !.cursor = @ - 1])
       ELSE Continue(m)

\* Mutant of CursorDown: past the last entry the cursor wraps to the first.
CursorDownWrap(m) ==
  IF m.step = stateProfile
  THEN Continue(IF m.cursor < Len(m.filteredProfiles) - 1
                THEN [m EXCEPT !.cursor = @ + 1] ELSE [m EXCEPT !.cursor = 0])
  ELSE IF m.step = stateRegion
  THEN Continue(IF m.cursor < Len(m.filteredRegions) - 1
                THEN [m EXCEPT !.cursor = @ + 1] ELSE [m EXCEPT !.cursor = 0])
  ELSE IF m.step = stateInstance /\ m.cursor < Len(m.filteredInstances) - 1
       THEN TriggerPreview([m EXCEPT !.cursor = @ + 1])
       ELSE Continue([m EXCEPT !.cursor = 0])

\* case "down" (and case "j"): the switch on m.step
CursorDown(m) ==
  IF m.step = stateProfile
  THEN Continue(IF m.cursor < Len(m.filteredProfiles) - 1
                THEN [m EXCEPT !.cursor = @ + 1] ELSE m)
  ELSE IF m.step = stateRegion
  THEN Continue(IF m.cursor < Len(m.filteredRegions) - 1
                THEN [m EXCEPT !.cursor = @ + 1] ELSE m)
  ELSE IF m.step = stateInstance /\ m.cursor < Len(m.filteredInstances) - 1
       THEN TriggerPreview([m EXCEPT !.cursor = @ + 1])
       ELSE Continue(m)

\* switch s { case "up": ... case "down": ... }
ArrowKeys(m, s) ==
  IF s = kUp THEN CursorUp(m)
  ELSE IF s = kDown THEN CursorDown(m)
  ELSE Continue(m)

\* if m.filter == "" { switch s { case "k": ... case "j": ... } }
LetterKeys(m, s) ==
  IF m.filter = <<>>
  THEN IF s = kK THEN CursorUp(m)
       ELSE IF s = kJ THEN CursorDown(m)
       ELSE Continue(m)
  ELSE Continue(m)

\* Mutant of Confirm: the cursor indexes the unfiltered lists.
ConfirmUnfiltered(m) ==
  IF m.step = stateProfile
  THEN IF Len(m.filteredProfiles) = 0
       THEN Return([m EXCEPT !.err = "no AWS profiles found"], Quit)
       ELSE LET sel == m.profiles[m.cursor + 1]
            IN Return([m EXCEPT !.selectedProfile = sel, !.loading = TRUE],
                      regionsCmd(sel))
  ELSE IF m.step = stateRegion
  THEN IF Len(m.filteredRegions) = 0
       THEN Return([m EXCEPT !.err = "no regions found"], Quit)
       ELSE LET sel == m.regions[m.cursor + 1]
            IN Return([m EXCEPT !.selectedRegion = sel, !.loading = TRUE],
                      instancesCmd(m.selectedProfile, sel))
  ELSE IF m.step = stateInstance
  THEN IF Len(m.filteredInstances) = 0
       THEN Return([m EXCEPT !.err = "no instances found"], Quit)
       ELSE Return([m EXCEPT
                      !.selectedInstance = SplitFirst(m.instances[m.cursor + 1]),
                      !.step = stateDone],
                   Quit)
  ELSE Continue(m)

\* Mutant of Confirm: a confirm on an empty filtered list is ignored.
ConfirmEmptyIgnored(m) ==
  IF m.step = stateProfile
  THEN IF Len(m.filteredProfiles) = 0
       THEN Return(m, NilCmd)
       ELSE LET sel == m.filteredProfiles[m.cursor + 1]
            IN Return([m EXCEPT !.selectedProfile = sel, !.loading = TRUE],
                      regionsCmd(sel))
  ELSE IF m.step = stateRegion
  THEN IF Len(m.filteredRegions) = 0
       THEN Return(m, NilCmd)
       ELSE LET sel == m.filteredRegions[m.cursor + 1]
            IN Return([m EXCEPT !.selectedRegion = sel, !.loading = TRUE],
                      instancesCmd(m.selectedProfile, sel))
  ELSE IF m.step = stateInstance
  THEN IF Len(m.filteredInstances) = 0
       THEN Return(m, NilCmd)
       ELSE Return([m EXCEPT
                      !.selectedInstance = SplitFirst(m.filteredInstances[m.cursor + 1]),
                      !.step = stateDone],
                   Quit)
  ELSE Continue(m)

\* Mutant of Confirm: a confirm that dispatches a list fetch leaves loading
\* clear.
ConfirmNoLoading(m) ==
  IF m.step = stateProfile
  THEN IF Len(m.filteredProfiles) = 0
       THEN Return([m EXCEPT !.err = "no AWS profiles found"], Quit)
       ELSE LET sel == m.filteredProfiles[m.cursor + 1]
            IN Return([m EXCEPT !.selectedProfile = sel], regionsCmd(sel))
  ELSE IF m.step = stateRegion
  THEN IF Len(m.filteredRegions) = 0
       THEN Return([m EXCEPT !.err = "no regions found"], Quit)
       ELSE LET sel == m.filteredRegions[m.cursor + 1]
            IN Return([m EXCEPT !.selectedRegion = sel],
                      instancesCmd(m.selectedProfile, sel))
  ELSE IF m.step = stateInstance
  THEN IF Len(m.filteredInstances) = 0
       THEN Return([m EXCEPT !.err = "no instances found"], Quit)
       ELSE Return([m EXCEPT
                      !.selectedInstance = SplitFirst(m.filteredInstances[m.cursor + 1]),
                      !.step = stateDone],
                   Quit)
  ELSE Continue(m)

\* case "enter": the switch on m.step
Confirm(m) ==
  IF m.step = stateProfile
  THEN IF Len(m.filteredProfiles) = 0
       THEN Return([m EXCEPT !.err = "no AWS profiles found"], Quit)
       ELSE LET sel == m.filteredProfiles[m.cursor + 1]
            IN Return([m EXCEPT !.selectedProfile = sel, !.loading = TRUE],
                      regionsCmd(sel))
  ELSE IF m.step = stateRegion
  THEN IF Len(m.filteredRegions) = 0
       THEN Return([m EXCEPT !.err = "no regions found"], Quit)
       ELSE LET sel == m.filteredRegions[m.cursor + 1]
            IN Return([m EXCEPT !.selectedRegion = sel, !.loading = TRUE],
                      instancesCmd(m.selectedProfile, sel))
  ELSE IF m.step = stateInstance
  THEN IF Len(m.filteredInstances) = 0
       THEN Return([m EXCEPT !.err = "no instances found"], Quit)
       ELSE Return([m EXCEPT
                      !.selectedInstance = SplitFirst(m.filteredInstances[m.cursor + 1]),
                      !.step = stateDone],
                   Quit)
  ELSE Continue(m)

\* Mutant of Printable: the length of the key's name is not tested.
PrintableFirstByte(s) == Len(s) >= 1 /\ s[1] >= 32 /\ s[1] <= 126

\* len(s) == 1 && s[0] >= 32 && s[0] <= 126
Printable(s) == Len(s) = 1 /\ s[1] >= 32 /\ s[1] <= 126

\* switch s { case "enter": ... case "backspace": ... default: ... }
EditKeys(m, s) ==
  IF s = kEnter THEN Confirm(m)
  ELSE IF s = kBackspace
  THEN Continue(IF Len(m.filter) > 0
                THEN [m EXCEPT !.filter = SubSeq(@, 1, Len(@) - 1)] ELSE m)
  ELSE Continue(IF Printable(s) THEN [m EXCEPT !.filter = @ \o s] ELSE m)

\* Mutant of Clamp: the cursor is left where it was.
ClampNone(m, n) == m

\* The cursor clamp that follows each filterList call; n = len(filtered list)
Clamp(m, n) ==
  IF n = 0 THEN [m EXCEPT !.cursor = 0]
  ELSE LET c1 == IF m.cursor >= n THEN n - 1 ELSE m.cursor
           c2 == IF c1 < 0 THEN 0 ELSE c1
       IN [m EXCEPT !.cursor = c2]

\* Mutant of Refilter: the filter update on stateInstance starts no preview.
RefilterQuiet(m) ==
  IF m.step = stateProfile
  THEN LET fl == filterList(m.profiles, m.filter)
       IN Continue(Clamp([m EXCEPT !.filteredProfiles = fl], Len(fl)))
  ELSE IF m.step = stateRegion
  THEN LET fl == filterList(m.regions, m.filter)
       IN Continue(Clamp([m EXCEPT !.filteredRegions = fl], Len(fl)))
  ELSE IF m.step = stateInstance
  THEN LET fl == filterList(m.instances, m.filter)
       IN Continue(Clamp([m EXCEPT !.filteredInstances = fl], Len(fl)))
  ELSE Continue(m)

\* "Update filtered lists": switch m.step { ... }
Refilter(m) ==
  IF m.step = stateProfile
  THEN LET fl == filterList(m.profiles, m.filter)
       IN Continue(Clamp([m EXCEPT !.filteredProfiles = fl], Len(fl)))
  ELSE IF m.step = stateRegion
  THEN LET fl == filterList(m.regions, m.filter)
       IN Continue(Clamp([m EXCEPT !.filteredRegions = fl], Len(fl)))
  ELSE IF m.step = stateInstance
  THEN LET fl == filterList(m.instances, m.filter)
           m1 == Clamp([m EXCEPT !.filteredInstances = fl], Len(fl))
       IN IF Len(fl) = 0 THEN Continue(m1) ELSE TriggerPreview(m1)
  ELSE Continue(m)

\* The quit keys: case "cmd+q", "cmd+c", "esc"
QuitKeys == {kCmdQ, kCmdC, kEsc}

\* Mutant of IsQuit: "esc" is missing from the case list.
IsQuitNoEsc(s) == s \in {kCmdQ, kCmdC}

\* switch s { case "cmd+q", "cmd+c", "esc": return m, tea.Quit }
IsQuit(s) == s \in QuitKeys

\* Mutant of Gated: the loading check is missing.
GatedNever(m) == FALSE

\* if m.loading { return m, nil }
Gated(m) == m.loading

\* "If loading, keep ticking for spinner": the end of Update
Trailer(m) ==
  IF m.loading THEN Return(m, spinnerTick) ELSE Return(m, NilCmd)

\* The code after the switch on s: the filter update, then the end of Update
AfterEdit(r) ==
  IF r.ret THEN r ELSE
  LET r4 == Refilter(r.m)
  IN IF r4.ret THEN r4 ELSE Trailer(r4.m)

\* The code after the j/k block: the switch on s (enter, backspace, default)
AfterLetters(r, s) ==
  IF r.ret THEN r ELSE AfterEdit(EditKeys(r.m, s))

\* The code after the switch on up/down: the j/k block
AfterArrows(r, s) ==
  IF r.ret THEN r ELSE AfterLetters(LetterKeys(r.m, s), s)

\* case tea.KeyMsg
UpdateKey(m, s) ==
  IF IsQuit(s) THEN Return(m, Quit)
  ELSE IF Gated(m) THEN Return(m, NilCmd)
  ELSE AfterArrows(ArrowKeys(m, s), s)

\* Mutant of UpdateRegions: the success branch leaves the cursor where it was.
UpdateRegionsKeepCursor(m, msg) ==
  LET m1 == [m EXCEPT !.loading = FALSE]
  IN IF msg.err # NoErr
     THEN Return([m1 EXCEPT !.err = msg.err], NilCmd)
     ELSE Trailer([m1 EXCEPT !.regions = msg.list, !.filteredRegions = msg.list,
                             !.filter = <<>>, !.step = stateRegion])

\* Mutant of UpdateRegions: the success branch keeps the filter query.
UpdateRegionsKeepFilter(m, msg) ==
  LET m1 == [m EXCEPT !.loading = FALSE]
  IN IF msg.err # NoErr
     THEN Return([m1 EXCEPT !.err = msg.err], NilCmd)
     ELSE Trailer([m1 EXCEPT !.regions = msg.list, !.filteredRegions = msg.list,
                             !.cursor = 0, !.step = stateRegion])

\* case struct{ regions []string; err error }
UpdateRegions(m, msg) ==
  LET m1 == [m EXCEPT !.loading = FALSE]
  IN IF msg.err # NoErr
     THEN Return([m1 EXCEPT !.err = msg.err], NilCmd)
     ELSE Trailer([m1 EXCEPT !.regions = msg.list, !.filteredRegions = msg.list,
                             !.cursor = 0, !.filter = <<>>, !.step = stateRegion])

\* Mutant of UpdateInstances: the result leaves loading set.
UpdateInstancesStillLoading(m, msg) ==
  IF msg.err # NoErr
  THEN Return([m EXCEPT !.err = msg.err], NilCmd)
  ELSE Trailer([m EXCEPT !.instances = msg.list, !.filteredInstances = msg.list,
                         !.cursor = 0, !.filter = <<>>, !.step = stateInstance])

\* case struct{ instances []string; err error }
UpdateInstances(m, msg) ==
  LET m1 == [m EXCEPT !.loading = FALSE]
  IN IF msg.err # NoErr
     THEN Return([m1 EXCEPT !.err = msg.err], NilCmd)
     ELSE Trailer([m1 EXCEPT !.instances = msg.list, !.filteredInstances = msg.list,
                             !.cursor = 0, !.filter = <<>>, !.step = stateInstance])

\* Mutant of Current: every preview result is applied.
CurrentAlways(m, msg) == TRUE

\* if msg.instanceId == m.previewInstanceId
Current(m, msg) == msg.instanceId = m.previewInstanceId

\* Mutant of UpdatePreview: a current result's error becomes the model's.
UpdatePreviewFatal(m, msg) ==
  IF Current(m, msg)
  THEN Trailer([m EXCEPT !.previewTags = msg.tags, !.previewLoading = FALSE,
                         !.err = IF msg.err # NoErr THEN msg.err ELSE @])
  ELSE Trailer(m)

\* case struct{ tags []Tag; instanceId string; err error }
UpdatePreview(m, msg) ==
  IF Current(m, msg)
  THEN Trailer([m EXCEPT !.previewTags = msg.tags, !.previewLoading = FALSE])
  ELSE Trailer(m)

\* case tea.Msg (the spinner tick, and every message of another type)
UpdateTick(m) ==
  IF m.loading
  THEN Return([m EXCEPT !.spinnerFrame = (@ + 1) % NumSpinnerFrames], spinnerTick)
  ELSE Trailer(m)

\* func (m model) Update(msg tea.Msg) (tea.Model, tea.Cmd): .m and .cmd
Update(m, msg) ==
  IF msg.type = "key" THEN UpdateKey(m, msg.s)
  ELSE IF msg.type = "regions" THEN UpdateRegions(m, msg)
  ELSE IF msg.type = "instances" THEN UpdateInstances(m, msg)
  ELSE IF msg.type = "preview" THEN UpdatePreview(m, msg)
  ELSE UpdateTick(m)

\* ----------------------------------------------------------------- program
VARIABLES
  model,        \* the tea.Model the program holds (the model struct)
  pc,           \* main: "run" in p.Run(), "session" in startSession, "exit1"
  quitPending,  \* a tea.QuitMsg (the result of tea.Quit) is on its way
  tasks,        \* the fetch commands alive: worker, channel, select
  ticks,        \* number of spinnerTick commands sleeping
  late,         \* messages handled since the run was over for the operator
  e2e           \* progress through the end-to-end scenario (-1: left it)

vars == <<model, pc, quitPending, tasks, ticks, late, e2e>>

\* What getProfiles may return: (profiles, err)
ProfilesResults ==
  { [list |-> <<sDefault, sProd>>, err |-> NoErr],
    [list |-> <<>>, err |-> NoErr],
    [list |-> <<>>, err |-> "getProfiles failed"] }

\* func initialModel() model, given what getProfiles returned
initialModel(profiles, err) ==
  [ profiles |-> profiles, regions |-> <<>>, instances |-> <<>>,
    selectedProfile |-> <<>>, selectedRegion |-> <<>>, selectedInstance |-> <<>>,
    cursor |-> 0, err |-> err, step |-> stateProfile, filter |-> <<>>,
    filteredProfiles |-> profiles, filteredRegions |-> <<>>,
    filteredInstances |-> <<>>, loading |-> FALSE, spinnerFrame |-> 0,
    previewTags |-> NoTags, previewLoading |-> FALSE, previewInstanceId |-> <<>> ]

\* What the worker goroutine of a command may put on its channel: the result
\* of getRegions / getInstances / getInstanceTags.
WorkerResults(kind, id) ==
  IF kind = "regions"
  THEN { RegionsMsg(<<sUsEast1, sUsWest2>>, NoErr),
         RegionsMsg(<<>>, "getRegions failed") }
  ELSE IF kind = "instances"
  THEN { InstancesMsg(<<sI1Web, sI2Db>>, NoErr),
         InstancesMsg(<<sI3>>, NoErr),
         InstancesMsg(<<>>, "getInstances failed") }
  ELSE { PreviewMsg(TagsOf(id), id, NoErr),
         PreviewMsg(NoTags, id, "getInstanceTags failed") }

\* Mutant of TimeoutMsg: the preview timeout names no instance.
TimeoutMsgNoId(kind, id) ==
  IF kind = "regions" THEN RegionsMsg(<<>>, "timeout loading regions")
  ELSE IF kind = "instances" THEN InstancesMsg(<<>>, "timeout loading instances")
  ELSE PreviewMsg(NoTags, <<>>, "timeout loading tags")

\* The message of the time.After branch of a command's select
TimeoutMsg(kind, id) ==
  IF kind = "regions" THEN RegionsMsg(<<>>, "timeout loading regions")
  ELSE IF kind = "instances" THEN InstancesMsg(<<>>, "timeout loading instances")
  ELSE PreviewMsg(NoTags, id, "timeout loading tags")

\* The deadline of a command's select
Deadline(kind) == IF kind = "preview" THEN PreviewTimeout ELSE ListTimeout

\* One running command: op is the worker goroutine ("running" its lookup, or
\* "done" once it has sent to ch), ch the channel of capacity one, sel the
\* select ("waiting" or "returned"), out the message the command returned and
\* the loop has not yet received, nmsgs the number of messages it returned,
\* elapsed the time since time.After was armed.
Task(kind, id, op, ch, sel, out, nmsgs, elapsed) ==
  [kind |-> kind, id |-> id, op |-> op, ch |-> ch, sel |-> sel, out |-> out,
   nmsgs |-> nmsgs, elapsed |-> elapsed]

FreeTask == Task("free", <<>>, "done", NoMsg, "returned", NoMsg, 0, 0)

\* A slot whose command has returned, whose message the loop has received and
\* whose worker has finished holds nothing that can act any more: its
\* goroutines have ended and its channel is garbage.
Finished(t) == t.sel = "returned" /\ t.out = NoMsg /\ t.op = "done"

Collect(t) == IF Finished(t) THEN FreeTask ELSE t

FetchCmd(cmd) == cmd.type \in {"regions", "instances", "preview"}

\* The command function starts: make(chan ..., 1); go func() {...}(); select
Spawn(ts, cmd) ==
  LET i == CHOOSE k \in 1..MaxTasks :
             Finished(ts[k]) /\ \A j \in 1..(k - 1) : ~Finished(ts[j])
  IN [ts EXCEPT ![i] = Task(cmd.type, cmd.instanceId, "running", NoMsg,
                            "waiting", NoMsg, 0, 0)]

\* The scenario of the end-to-end property, as the messages Update receives.
Script ==
  << KeyMsg(kDown), KeyMsg(kEnter), RegionsMsg(<<sUsEast1, sUsWest2>>, NoErr),
     KeyMsg(kDown), KeyMsg(kEnter), InstancesMsg(<<sI1Web, sI2Db>>, NoErr),
     KeyMsg(kD), KeyMsg(kB), KeyMsg(kEnter) >>

\* Preview results, ticks and window-size messages may interleave with the
\* scenario; any other message that is not its next one leaves it.
ScriptNext(n, msg) ==
  IF msg.type \in {"preview", "tick", "windowsize"} THEN n
  ELSE IF n >= 0 /\ n < Len(Script) /\ msg = Script[n + 1] THEN n + 1
  ELSE -1

Init ==
  /\ \E p \in ProfilesResults :
       /\ model = initialModel(p.list, p.err)
       /\ e2e = IF p.list = <<sDefault, sProd>> THEN 0 ELSE -1
  /\ pc = "run"
  /\ quitPending = FALSE
  /\ tasks = [i \in 1..MaxTasks |-> FreeTask]
  /\ ticks = 0
  /\ late = 0

\* The program runs the command Update returned: tea.Quit, a fetch command, or
\* spinnerTick. ts and n are the tasks and ticks left by the message's arrival.
RunCmd(cmd, ts, n) ==
  /\ FetchCmd(cmd) => \E k \in 1..MaxTasks : Finished(ts[k])
  /\ cmd.type = "tick" => n < MaxTicks
  /\ tasks' = IF FetchCmd(cmd) THEN Spawn(ts, cmd) ELSE ts
  /\ ticks' = IF cmd.type = "tick" THEN n + 1 ELSE n
  /\ quitPending' = (quitPending \/ cmd.type = "quit")

\* The run is over for the operator: the view shows only the error, or the
\* program is about to end.
Over == model.err # NoErr \/ quitPending

\* The event loop keeps the model Update returned and runs the command.
Handle(r, msg, ts, n) ==
  /\ pc = "run"
  /\ Len(r.m.filter) <= MaxFilter
  /\ r.m.spinnerFrame <= MaxSpin
  /\ (Over /\ msg.type = "key") => late < MaxLate
  /\ late' = IF Over /\ msg.type = "key" THEN late + 1 ELSE late
  /\ model' = r.m
  /\ e2e' = ScriptNext(e2e, msg)
  /\ RunCmd(r.cmd, ts, n)
  /\ UNCHANGED pc

\* The event loop hands one message to Update.
Step(msg, ts, n) == Handle(Update(model, msg), msg, ts, n)

\* The operator presses a key.
KeyPress(s) == Step(KeyMsg(s), tasks, ticks)

\* The terminal reports its size (tea.WindowSizeMsg): a message of a type
\* Update names no case for, so it takes the tea.Msg case.
WindowSizeMsg == Msg("windowsize", <<>>, <<>>, NoTags, <<>>, NoErr)
WindowSize == Step(WindowSizeMsg, tasks, ticks)

\* A spinnerTick command wakes (time.Sleep(80ms)) and its struct{}{} arrives.
Tick ==
  /\ ticks > 0
  /\ Step(TickMsg, tasks, ticks - 1)

\* Mutant of CanSend: the channel has no buffer, so a send completes only
\* while the select is there to receive.
CanSendUnbuffered(t) == t.sel = "waiting"

\* ch <- result on the channel made with capacity 1: the send goes through
\* when the buffer is empty, and blocks otherwise.
CanSend(t) == t.ch = NoMsg

\* The worker goroutine's lookup returns and it sends the result on ch.
WorkerReturn(i) ==
  /\ pc = "run"
  /\ tasks[i].op = "running"
  /\ CanSend(tasks[i])
  /\ \E r \in WorkerResults(tasks[i].kind, tasks[i].id) :
       tasks' = [tasks EXCEPT ![i] = Collect([@ EXCEPT !.op = "done", !.ch = r])]
  /\ UNCHANGED <<model, pc, quitPending, ticks, late, e2e>>

\* Mutant of Selecting: a select that has returned can take a branch again.
SelectingAlways(t) == TRUE

\* The select of a command can still take a branch.
Selecting(t) == t.sel = "waiting"

\* case msg := <-ch: return msg
SelectRecv(i) ==
  /\ pc = "run"
  /\ Selecting(tasks[i])
  /\ tasks[i].ch # NoMsg
  /\ tasks' = [tasks EXCEPT ![i].sel = "returned", ![i].out = tasks[i].ch,
                            ![i].ch = NoMsg, ![i].nmsgs = @ + 1,
                            ![i].elapsed = 0]
  /\ UNCHANGED <<model, pc, quitPending, ticks, late, e2e>>

\* case <-time.After(...): return the timeout message
SelectTimeout(i) ==
  /\ pc = "run"
  /\ Selecting(tasks[i])
  /\ tasks[i].elapsed >= Deadline(tasks[i].kind)
  /\ tasks' = [tasks EXCEPT ![i].sel = "returned",
                            ![i].out = TimeoutMsg(tasks[i].kind, tasks[i].id),
                            ![i].nmsgs = @ + 1, ![i].elapsed = 0]
  /\ UNCHANGED <<model, pc, quitPending, ticks, late, e2e>>

\* One time unit passes for every armed time.After; a timer that has reached
\* its deadline fires before more time passes.
TimePass ==
  /\ pc = "run"
  /\ \E i \in 1..MaxTasks : tasks[i].sel = "waiting"
  /\ \A i \in 1..MaxTasks :
       tasks[i].sel = "waiting" => tasks[i].elapsed < Deadline(tasks[i].kind)
  /\ tasks' = [i \in 1..MaxTasks |->
                 IF tasks[i].sel = "waiting"
                 THEN [tasks[i] EXCEPT !.elapsed = @ + 1] ELSE tasks[i]]
  /\ UNCHANGED <<model, pc, quitPending, ticks, late, e2e>>

\* The loop receives the message a command returned.
Receive(i) ==
  /\ tasks[i].out # NoMsg
  /\ Step(tasks[i].out, [tasks EXCEPT ![i] = Collect([@ EXCEPT !.out = NoMsg])], ticks)

\* The loop receives tea.QuitMsg: p.Run() returns and main goes on to
\* startSession, or exits with status 1. The loop is gone: nothing receives
\* what the commands still alive return.
QuitMsg ==
  /\ pc = "run"
  /\ quitPending
  /\ pc' = IF model.err # NoErr \/ model.step # stateDone THEN "exit1" ELSE "session"
  /\ tasks' = [i \in 1..MaxTasks |-> FreeTask]
  /\ ticks' = 0
  /\ UNCHANGED <<model, quitPending, late, e2e>>

\* A command runs to its end and the loop receives the one message it returns:
\* the worker's result (WorkerReturn, SelectRecv, Receive) or, the deadline
\* having elapsed first, the timeout message (TimePass, SelectTimeout, Receive).
\* The navigator sees a command only through this message.
Complete(i) ==
  /\ tasks[i].kind # "free"
  /\ \E msg \in WorkerResults(tasks[i].kind, tasks[i].id)
                  \cup {TimeoutMsg(tasks[i].kind, tasks[i].id)} :
       Step(msg, [tasks EXCEPT ![i] = FreeTask], ticks)

\* The navigator with its commands taken whole.
Next ==
  \/ \E s \in Keys : KeyPress(s)
  \/ WindowSize
  \/ Tick
  \/ \E i \in 1..MaxTasks : Complete(i)
  \/ QuitMsg

Spec == Init /\ [][Next]_vars

\* The keys sent while the commands are followed step by step.
CmdKeys == {kUp, kDown, kEnter, kEsc}

\* The navigator with each command followed through its worker goroutine,
\* its channel, its timer and its select.
NextCmd ==
  \/ \E s \in CmdKeys : KeyPress(s)
  \/ \E i \in 1..MaxTasks : WorkerReturn(i)
  \/ \E i \in 1..MaxTasks : SelectRecv(i)
  \/ \E i \in 1..MaxTasks : SelectTimeout(i)
  \/ TimePass
  \/ \E i \in 1..MaxTasks : Receive(i)
  \/ QuitMsg

SpecCmd == Init /\ [][NextCmd]_vars

\* What the scheduling guarantees: time passes and armed timers fire, a
\* select that can take a branch takes one, the loop receives the messages
\* its commands return and the quit message. Nothing is promised of the
\* lookups (a worker may never return) nor of the operator's keys.
Fairness ==
  /\ WF_vars(TimePass)
  /\ \A i \in 1..MaxTasks :
       /\ WF_vars(SelectRecv(i))
       /\ WF_vars(SelectTimeout(i))
       /\ WF_vars(Receive(i))
  /\ WF_vars(QuitMsg)

\* The keys sent while progress is checked: they walk the stages and move
\* the highlight.
LiveKeys == {kDown, kEnter}

NextLive ==
  \/ \E s \in LiveKeys : KeyPress(s)
  \/ \E i \in 1..MaxTasks : WorkerReturn(i)
  \/ \E i \in 1..MaxTasks : SelectRecv(i)
  \/ \E i \in 1..MaxTasks : SelectTimeout(i)
  \/ TimePass
  \/ \E i \in 1..MaxTasks : Receive(i)
  \/ QuitMsg

SpecLive == Init /\ [][NextLive]_vars /\ Fairness

\* ------------------------------------------------------- filterList alone
\* Longest list handed to filterList.
MaxListLen == 2

kA == <<97>>                                              \* "a"
kUpperA == <<65>>                                         \* "A"
kUpperB == <<66>>                                         \* "B"

\* Profile names that differ in case, overlap and repeat letters.
FilterItems == {kA, kUpperA, kB, <<97, 98>>, <<66, 97>>}

\* The lists of at most MaxListLen names, repetitions included.
FilterLists == UNION {[1..n -> FilterItems] : n \in 0..MaxListLen}

\* The keys that edit the query.
FilterKeys == {kA, kUpperA, kB, kUpperB, kBackspace}

\* What getProfiles may return here: section names, each at most once.
FilterProfiles ==
  {l \in FilterLists : \A i, j \in 1..Len(l) : l[i] = l[j] => i = j}

\* The navigator constructed on any of these profile lists.
InitFilter ==
  /\ \E l \in FilterProfiles : model = initialModel(l, NoErr)
  /\ e2e = -1
  /\ pc = "run"
  /\ quitPending = FALSE
  /\ tasks = [i \in 1..MaxTasks |-> FreeTask]
  /\ ticks = 0
  /\ late = 0

\* The operator edits the query; each key runs filterList on the profiles.
NextFilter == \E s \in FilterKeys : KeyPress(s)

SpecFilter == InitFilter /\ [][NextFilter]_vars

\* -------------------------------------------------------------- properties
InstanceIds == {sI1, sI2, sI3}

\* Every message a previewTagsCmd for id may return.
PreviewResults(id) == WorkerResults("preview", id) \cup {TimeoutMsg("preview", id)}

PreviewInFlight == \E i \in 1..MaxTasks : tasks[i].kind = "preview"

\* C1: staleness guard. With preview fetches in flight for several targets and
\* their results arriving in any order: whenever previewLoading is false the
\* stored tags are those of a result for the current previewInstanceId, never
\* another target's; once no preview fetch is in flight the preview has
\* settled (previewLoading false) on the last target's result; and a result
\* whose instance id differs from previewInstanceId changes nothing.
StalenessGuard ==
  /\ (~model.previewLoading /\ model.previewInstanceId # <<>>)
       => model.previewTags \in {TagsOf(model.previewInstanceId), NoTags}
  /\ (pc = "run" /\ ~PreviewInFlight /\ model.previewInstanceId # <<>>)
       => ~model.previewLoading
  /\ \A id \in InstanceIds \ {model.previewInstanceId} :
       \A msg \in PreviewResults(id) : Update(model, msg).m = model

\* C1 witness: the result for i-2 (dispatched last) has been applied while the
\* fetch for i-1 (dispatched before it) is still to deliver its result.
StaleResultPending ==
  /\ pc = "run"
  /\ model.step = stateInstance
  /\ model.previewInstanceId = sI2
  /\ ~model.previewLoading
  /\ model.previewTags = TagsOf(sI2)
  /\ \E i \in 1..MaxTasks : tasks[i].kind = "preview" /\ tasks[i].id = sI1
  /\ Update(model, PreviewMsg(TagsOf(sI1), sI1, NoErr)).m = model

\* The filtered list the cursor indexes at m.step (Done keeps the instance list)
CurrentFiltered(m) ==
  IF m.step = stateProfile THEN m.filteredProfiles
  ELSE IF m.step = stateRegion THEN m.filteredRegions
  ELSE m.filteredInstances

\* C2: cursor invariant. In every reachable state 0 <= cursor < len(filtered
\* list of the current stage) when that list is non-empty, and cursor = 0 when
\* it is empty.
CursorInvariant ==
  LET n == Len(CurrentFiltered(model))
  IN IF n = 0 THEN model.cursor = 0
     ELSE model.cursor >= 0 /\ model.cursor < n

\* C2 witness: the cursor is on the second instance and a key that narrows the
\* filtered list to one entry re-clamps it to 0.
CursorReclamped ==
  /\ pc = "run"
  /\ model.step = stateInstance
  /\ model.cursor = 1
  /\ \E s \in Keys :
       LET r == Update(model, KeyMsg(s))
       IN Len(r.m.filteredInstances) = 1 /\ r.m.cursor = 0

\* C3: loading gate. While loading is true every key other than the quit keys
\* leaves the whole model unchanged and returns no command.
LoadingGate ==
  model.loading =>
    \A s \in AllKeys \ QuitKeys :
      LET r == Update(model, KeyMsg(s))
      IN r.m = model /\ r.cmd = NilCmd

\* C3 witness: a load is outstanding on RegionSelect with the cursor moved.
LoadingOnRegion ==
  /\ pc = "run"
  /\ model.loading
  /\ model.step = stateRegion
  /\ model.cursor = 1
  /\ Update(model, KeyMsg(kUp)).m.cursor = 1

\* C4: end to end. After exactly the scenario's messages (down, enter, the
\* region result, down, enter, the instance result, "d", "b", enter) the stage
\* is Done with profile prod, region us-west-2, instance i-2 and no error.
EndToEnd ==
  e2e = Len(Script) =>
    /\ model.step = stateDone
    /\ model.selectedProfile = sProd
    /\ model.selectedRegion = sUsWest2
    /\ model.selectedInstance = sI2
    /\ model.err = NoErr

\* C4 witness: the scenario has been played to its last message.
ScenarioPlayed == e2e = Len(Script) /\ model.filter = kD \o kB

\* The errors a region-list or instance-list result may carry.
ListErrors ==
  { "getRegions failed", "timeout loading regions",
    "getInstances failed", "timeout loading instances" }

ListInFlight ==
  \E i \in 1..MaxTasks : tasks[i].kind \in {"regions", "instances"}

\* C5 (as claimed): once a region-list or instance-list result carrying an
\* error has been processed, loading is clear, loop termination has been
\* signalled and no further fetch for the stage is dispatched.
FetchErrorEndsRun ==
  model.err \in ListErrors =>
    /\ ~model.loading
    /\ quitPending \/ pc # "run"
    /\ ~ListInFlight

\* C6 (as claimed): once the region fetch has timed out, the stage never
\* advances past ProfileSelect.
TimeoutNeverAdvances ==
  model.err = "timeout loading regions" => model.step = stateProfile

\* C7: exactly one result message per dispatch. A command returns no message
\* while its select waits and exactly one once it has returned, whichever of
\* the worker's result and the deadline came first; a result the worker sends
\* after the deadline fired stays in the channel.
OneMessagePerDispatch ==
  \A i \in 1..MaxTasks :
    LET t == tasks[i]
    IN t.kind # "free" =>
         /\ t.nmsgs = IF t.sel = "returned" THEN 1 ELSE 0
         /\ t.out # NoMsg => t.sel = "returned"
         /\ (t.sel = "waiting" /\ t.ch # NoMsg) => t.op = "done"

\* C7 witness: the deadline fired first, the timeout message is on its way,
\* and the worker's result has since arrived in the channel.
LateResultInChannel ==
  \E i \in 1..MaxTasks :
    /\ tasks[i].kind # "free"
    /\ tasks[i].sel = "returned"
    /\ tasks[i].out = TimeoutMsg(tasks[i].kind, tasks[i].id)
    /\ tasks[i].ch # NoMsg
    /\ tasks[i].nmsgs = 1

\* C8: the quit gesture. In every stage, loading or not, Update on "esc"
\* returns tea.Quit and the model unchanged (so it does not set stage Done).
EscQuits ==
  LET r == Update(model, KeyMsg(kEsc))
  IN r.cmd = Quit /\ r.m = model

\* C8 witness: a quit has been signalled while a load is outstanding, which
\* only the quit keys can do.
QuitWhileLoading ==
  /\ pc = "run"
  /\ quitPending
  /\ model.loading
  /\ model.step = stateRegion

\* C9 (as claimed): with the filter empty "j" and "k" only move the cursor and
\* leave the filter empty; with the filter non-empty they are only appended.
LetterNavigationOnly ==
  (~model.loading /\ model.step # stateDone) =>
    \A s \in {kJ, kK} :
      LET r == Update(model, KeyMsg(s))
      IN IF model.filter = <<>>
         THEN r.m.filter = <<>>
         ELSE r.m.filter = model.filter \o s

\* Update on "enter" in a state of ProfileSelect or RegionSelect with a
\* non-empty filtered list.
ConfirmRecords ==
  LET r == Update(model, KeyMsg(kEnter))
  IN /\ (model.step = stateProfile /\ ~model.loading
         /\ Len(model.filteredProfiles) > 0) =>
          LET sel == model.filteredProfiles[model.cursor + 1]
          IN /\ r.m = [model EXCEPT !.selectedProfile = sel, !.loading = TRUE]
             /\ r.cmd = regionsCmd(sel)
     /\ (model.step = stateRegion /\ ~model.loading
         /\ Len(model.filteredRegions) > 0) =>
          LET sel == model.filteredRegions[model.cursor + 1]
          IN /\ r.m = [model EXCEPT !.selectedRegion = sel, !.loading = TRUE]
             /\ r.cmd = instancesCmd(model.selectedProfile, sel)

\* A step that leaves ProfileSelect (RegionSelect) is the processing of the
\* success result of the outstanding region-list (instance-list) fetch.
AdvanceOnResult ==
  /\ (model.step = stateProfile /\ model'.step # stateProfile) =>
       /\ model'.step = stateRegion
       /\ model.loading /\ ~model'.loading
       /\ model'.err = model.err
       /\ \E i \in 1..MaxTasks : tasks[i].kind = "regions" /\ tasks'[i] = FreeTask
  /\ (model.step = stateRegion /\ model'.step # stateRegion) =>
       /\ model'.step = stateInstance
       /\ model.loading /\ ~model'.loading
       /\ model'.err = model.err
       /\ \E i \in 1..MaxTasks : tasks[i].kind = "instances" /\ tasks'[i] = FreeTask

\* C10: confirm on ProfileSelect (RegionSelect) with a non-empty filtered list
\* records the highlighted entry of the filtered list, sets loading and
\* returns the region-list (instance-list) fetch for it, leaving the stage as
\* it is; the stage advances only when that fetch's success result is
\* processed.
ConfirmDispatches == []ConfirmRecords /\ [][AdvanceOnResult]_vars

\* C10 witness: "prod", the only entry left by the filter "p", has been
\* confirmed and its region-list fetch is outstanding on ProfileSelect.
ConfirmedFiltered ==
  /\ pc = "run"
  /\ model.step = stateProfile
  /\ model.filter = kP
  /\ model.filteredProfiles = <<sProd>>
  /\ model.selectedProfile = sProd
  /\ model.loading
  /\ \E i \in 1..MaxTasks : tasks[i].kind = "regions"

\* The success results a list fetch of the given kind may deliver.
ListSuccesses(kind) == {x \in WorkerResults(kind, <<>>) : x.err = NoErr}

\* C11: a successful region-list (instance-list) result. In every state with
\* such a fetch outstanding, Update on each of its success results clears
\* loading, installs the received list as the stage list and as its filtered
\* view, sets the cursor to 0 and the filter to empty, sets the stage to
\* RegionSelect (InstanceSelect), changes nothing else and returns no command.
ListResultInstalls ==
  \A i \in 1..MaxTasks :
    /\ tasks[i].kind = "regions" =>
         \A msg \in ListSuccesses("regions") :
           LET r == Update(model, msg)
           IN /\ r.m = [model EXCEPT !.loading = FALSE, !.regions = msg.list,
                                     !.filteredRegions = msg.list, !.cursor = 0,
                                     !.filter = <<>>, !.step = stateRegion]
              /\ r.cmd = NilCmd
    /\ tasks[i].kind = "instances" =>
         \A msg \in ListSuccesses("instances") :
           LET r == Update(model, msg)
           IN /\ r.m = [model EXCEPT !.loading = FALSE, !.instances = msg.list,
                                     !.filteredInstances = msg.list, !.cursor = 0,
                                     !.filter = <<>>, !.step = stateInstance]
              /\ r.cmd = NilCmd

\* C11 witness: the region list has arrived after "prod" was confirmed at
\* cursor 1: RegionSelect shows the whole list, cursor 0, filter empty,
\* loading clear.
RegionListInstalled ==
  /\ pc = "run"
  /\ model.step = stateRegion
  /\ model.selectedProfile = sProd
  /\ model.regions = <<sUsEast1, sUsWest2>>
  /\ model.filteredRegions = model.regions
  /\ model.cursor = 0
  /\ model.filter = <<>>
  /\ ~model.loading
  /\ model.err = NoErr
  /\ ~ListInFlight

\* id is the canonical identifier of a display entry: the token before its
\* first space, the whole entry when it holds no space.
IsCanonicalId(id, entry) ==
  /\ Len(id) <= Len(entry)
  /\ id = SubSeq(entry, 1, Len(id))
  /\ \A j \in 1..Len(id) : id[j] # 32
  /\ Len(id) = Len(entry) \/ entry[Len(id) + 1] = 32

\* Update on "enter" in a state of InstanceSelect with a non-empty filtered
\* list; InstanceSelect is never loading.
ConfirmInstanceRecords ==
  model.step = stateInstance =>
    /\ ~model.loading
    /\ Len(model.filteredInstances) > 0 =>
         LET r == Update(model, KeyMsg(kEnter))
             entry == model.filteredInstances[model.cursor + 1]
         IN /\ IsCanonicalId(r.m.selectedInstance, entry)
            /\ r.m = [model EXCEPT !.selectedInstance = r.m.selectedInstance,
                                   !.step = stateDone]
            /\ r.cmd = Quit

\* A step that enters Done is that confirm, and it signals the quit.
DoneOnlyByConfirm ==
  (model.step # stateDone /\ model'.step = stateDone) =>
    /\ model.step = stateInstance
    /\ Len(model.filteredInstances) > 0
    /\ model' = Update(model, KeyMsg(kEnter)).m
    /\ quitPending'

\* C12: confirm on InstanceSelect with a non-empty filtered list records the
\* canonical identifier of the highlighted entry ("i-1" for "i-1 (web)", the
\* whole entry for "i-3") as selectedInstance, sets the stage to Done and
\* returns tea.Quit, changing nothing else; no other step enters Done.
InstanceConfirm ==
  /\ IsCanonicalId(sI1, sI1Web) /\ IsCanonicalId(sI3, sI3)
  /\ []ConfirmInstanceRecords
  /\ [][DoneOnlyByConfirm]_vars

\* C12 witness: an entry with no name suffix has been confirmed.
ConfirmedBareInstance ==
  /\ pc = "run"
  /\ model.step = stateDone
  /\ model.filteredInstances = <<sI3>>
  /\ model.selectedInstance = sI3
  /\ model.err = NoErr
  /\ quitPending

\* C13: confirm on an empty filtered list. On each of the three selection
\* stages, not loading, Update on "enter" with the stage's filtered list
\* empty sets the error, returns tea.Quit (so no fetch) and changes nothing
\* else: loading stays false, the stage and the recorded selections stay.
EmptyConfirmFatal ==
  (~model.loading /\ model.step \in {stateProfile, stateRegion, stateInstance}
   /\ CurrentFiltered(model) = <<>>) =>
    LET r == Update(model, KeyMsg(kEnter))
    IN /\ r.cmd = Quit
       /\ r.m.err # NoErr
       /\ r.m = [model EXCEPT !.err = r.m.err]

\* C13 witness: on InstanceSelect the filter has excluded every instance and
\* the confirm has failed; the quit is on its way.
EmptyInstanceConfirmed ==
  /\ pc = "run"
  /\ model.step = stateInstance
  /\ model.filter # <<>>
  /\ model.filteredInstances = <<>>
  /\ model.err = "no instances found"
  /\ ~model.loading
  /\ model.selectedInstance = <<>>
  /\ quitPending

\* The keys that neither quit nor confirm: on InstanceSelect each of them
\* either moves the cursor or reaches the filter update.
MoveOrEditKeys == AllKeys \ (QuitKeys \cup {kEnter})

\* C14: preview trigger. On InstanceSelect, not loading, Update on every key
\* that moves the cursor or reaches the filter update, and leaves a non-empty
\* filtered list, sets previewLoading, sets previewInstanceId to the canonical
\* identifier of the entry then highlighted and returns the tag fetch for
\* exactly that identifier, whether or not the cursor value changed.
PreviewTrigger ==
  (model.step = stateInstance /\ ~model.loading) =>
    \A s \in MoveOrEditKeys :
      LET r == Update(model, KeyMsg(s))
      IN Len(r.m.filteredInstances) > 0 =>
           LET entry == r.m.filteredInstances[r.m.cursor + 1]
           IN /\ r.m.previewLoading
              /\ IsCanonicalId(r.m.previewInstanceId, entry)
              /\ r.cmd = previewTagsCmd(model.selectedProfile, model.selectedRegion,
                                        r.m.previewInstanceId)

\* C14 witness: typing "d" left "i-2 (db)" highlighted at the unchanged cursor
\* 0, and its tag fetch is in flight.
FilterRetriggered ==
  /\ pc = "run"
  /\ model.step = stateInstance
  /\ model.filter = kD
  /\ model.cursor = 0
  /\ model.filteredInstances = <<sI2Db>>
  /\ model.previewLoading
  /\ model.previewInstanceId = sI2
  /\ \E i \in 1..MaxTasks : tasks[i].kind = "preview" /\ tasks[i].id = sI2

\* C15 (as claimed): on InstanceSelect a key that leaves the filtered list
\* empty dispatches no preview fetch, and while the filtered list is empty
\* the preview is in its empty state: previewLoading false and no tags held,
\* whatever preview results have been processed since.
EmptyListEmptyPreview ==
  model.step = stateInstance =>
    /\ ~model.loading =>
         \A s \in MoveOrEditKeys :
           LET r == Update(model, KeyMsg(s))
           IN r.m.filteredInstances = <<>> => r.cmd.type # "preview"
    /\ model.filteredInstances = <<>> =>
         ~model.previewLoading /\ model.previewTags = NoTags

\* C16: a preview-fetch result. In every state, Update on every result a tag
\* fetch may return (success, lookup error, timeout; for the current target
\* or another) changes no field but previewTags and previewLoading: stage,
\* cursor, filter, loading and err stay. A result for the current target that
\* carries an error leaves previewTags empty and previewLoading false.
PreviewResultFrame ==
  \A id \in InstanceIds :
    \A msg \in PreviewResults(id) :
      LET r == Update(model, msg)
      IN /\ r.m = [model EXCEPT !.previewTags = r.m.previewTags,
                                !.previewLoading = r.m.previewLoading]
         /\ (id = model.previewInstanceId /\ msg.err # NoErr) =>
              r.m.previewTags = NoTags /\ ~r.m.previewLoading

\* C16 witness: the tag fetch for "i-1", whose lookup yields a tag when it
\* succeeds, has failed or timed out: no tags, not loading, and the
\* navigator goes on in InstanceSelect without error.
PreviewErrorSwallowed ==
  /\ pc = "run"
  /\ model.step = stateInstance
  /\ model.previewInstanceId = sI1
  /\ ~model.previewLoading
  /\ model.previewTags = NoTags
  /\ TagsOf(sI1) # NoTags
  /\ model.err = NoErr
  /\ ~quitPending

\* C17 (as claimed): Update on a tick message, whenever one is pending,
\* advances the frame by one modulo the frame count, loading or not, changes
\* nothing else, and returns the next tick exactly when loading is set.
TickAdvancesFrame ==
  (pc = "run" /\ ticks > 0) =>
    LET r == Update(model, TickMsg)
    IN /\ r.m = [model EXCEPT !.spinnerFrame = (@ + 1) % NumSpinnerFrames]
       /\ r.m.spinnerFrame \in 0..(NumSpinnerFrames - 1)
       /\ r.cmd = IF model.loading THEN spinnerTick ELSE NilCmd

\* C18 (as claimed): while a stage-transition load is outstanding a tick is
\* pending, started by the dispatch of the fetch itself.
LoadingAnimated ==
  (pc = "run" /\ model.loading) => ticks > 0

\* The messages that may reach Update besides the results of fetches.
LoopMessages == {TickMsg, WindowSizeMsg} \cup {KeyMsg(s) : s \in AllKeys}

\* C19 (as claimed): at most one tick is pending at any time, and with
\* loading clear in Done or in an error state no message schedules a tick.
SingleTickChain ==
  /\ ticks <= 1
  /\ (~model.loading /\ (model.step = stateDone \/ model.err # NoErr)) =>
       \A msg \in LoopMessages : Update(model, msg).cmd # spinnerTick

\* C20: forward progress. Every step leaves the stage as it is or advances
\* it by exactly one in the order ProfileSelect, RegionSelect,
\* InstanceSelect, Done; the stage therefore never decreases and no stage is
\* entered twice, whatever the interleaving of key, list-result,
\* preview-result and tick messages.
ForwardProgress ==
  [][model'.step = model.step \/ model'.step = model.step + 1]_vars

\* C20 witness: the run has passed through all four stages and main has gone
\* on to start the session.
AllStagesPassed ==
  /\ pc = "session"
  /\ model.step = stateDone
  /\ model.regions # <<>>
  /\ model.instances # <<>>
  /\ model.selectedInstance = sI1

\* The unfiltered list of m.step (Done keeps the instance list)
CurrentList(m) ==
  IF m.step = stateProfile THEN m.profiles
  ELSE IF m.step = stateRegion THEN m.regions
  ELSE m.instances

\* On a selection stage the filtered list is the filter of the stage's list
\* by the query (Done has no list of its own).
FilteredIsFilter ==
  model.step \in {stateProfile, stateRegion, stateInstance} =>
    CurrentFiltered(model) = filterList(CurrentList(model), model.filter)

\* A step that enters a selection stage leaves the query empty.
StageEntryClearsFilter ==
  (model'.step # model.step /\ model'.step \in {stateRegion, stateInstance}) =>
    model'.filter = <<>>

SameLetter(c, d) ==
  \/ c = d
  \/ c \in 65..90 /\ d = c + 32
  \/ d \in 65..90 /\ c = d + 32

\* The query occurs in the item, case ignored.
Matches(item, query) ==
  \E off \in 0..(Len(item) - Len(query)) :
    \A k \in 1..Len(query) : SameLetter(item[off + k], query[k])

\* The items that match the query, in input order and with multiplicity.
MatchingItems(items, query) ==
  LET Hit(item) == Matches(item, query)
  IN SelectSeq(items, Hit)

\* The queries of at most MaxFilter characters the filter keys can spell.
FilterQueries ==
  UNION {[1..n -> {kA[1], kUpperA[1], kB[1], kUpperB[1]}] : n \in 0..MaxFilter}

\* C22: filterList. For every list of names, repetitions included, and every
\* query, filterList returns the items that contain the query, case ignored,
\* in input order and with multiplicity; for the empty query it returns the
\* list unchanged; and the filtered view Update keeps is that result for the
\* typed query.
FilterListCorrect ==
  /\ \A l \in FilterLists :
       /\ filterList(l, model.filter) = MatchingItems(l, model.filter)
       /\ filterList(l, <<>>) = l
  /\ \A q \in FilterQueries :
       filterList(model.profiles, q) = MatchingItems(model.profiles, q)
  /\ model.filteredProfiles = MatchingItems(model.profiles, model.filter)

\* C22 witness: the typed query "aB" keeps "ab" and drops "Ba", and
\* filterList by it keeps both copies of a repeated "ab".
FilterIgnoresCase ==
  /\ model.profiles = <<(<<66, 97>>), (<<97, 98>>)>>
  /\ model.filter = <<97, 66>>
  /\ model.filteredProfiles = <<(<<97, 98>>)>>
  /\ filterList(<<(<<97, 98>>), (<<97, 98>>)>>, model.filter)
       = <<(<<97, 98>>), (<<97, 98>>)>>

\* C23 (as claimed): when the initial profile load has failed the run ends
\* without the operator: the quit is signalled, and until the loop ends no
\* key other than the quit keys changes the navigator or returns a command.
ConfigErrorTerminal ==
  (pc = "run" /\ model.err = "getProfiles failed") =>
    /\ quitPending
    /\ \A s \in AllKeys \ QuitKeys :
         Update(model, KeyMsg(s)) = Return(model, NilCmd)

\* The exit gestures of the documentation: Esc, Ctrl+C, Cmd+Q.
ExitGestureKeys == {kEsc, kCtrlC, kCmdQ}

\* C24 (as claimed): in every state Update on each documented exit gesture
\* returns tea.Quit.
ExitGesturesQuit ==
  \A s \in ExitGestureKeys : Update(model, KeyMsg(s)).cmd = Quit

\* The cursor after a move by d, which stays where it is when the move would
\* leave [0, n - 1].
MovedCursor(c, d, n) == IF c + d >= 0 /\ c + d <= n - 1 THEN c + d ELSE c

\* C25: arrow navigation. On every selection stage, not loading, Update on
\* "up" ("down") moves the cursor by -1 (+1) when that stays within the
\* filtered list and leaves it otherwise, and changes neither the stage, the
\* filter query nor the filtered list, whether the query is empty or not.
ArrowNavigation ==
  (~model.loading /\ model.step \in {stateProfile, stateRegion, stateInstance}) =>
    LET n == Len(CurrentFiltered(model))
        up == Update(model, KeyMsg(kUp)).m
        down == Update(model, KeyMsg(kDown)).m
    IN /\ up.cursor = MovedCursor(model.cursor, -1, n)
       /\ down.cursor = MovedCursor(model.cursor, 1, n)
       /\ up.step = model.step /\ down.step = model.step
       /\ up.filter = model.filter /\ down.filter = model.filter
       /\ CurrentFiltered(up) = CurrentFiltered(model)
       /\ CurrentFiltered(down) = CurrentFiltered(model)

\* C25 witness: under the non-empty query "b", which both instances match,
\* the cursor has moved down to the last entry, where "down" leaves it.
ArrowMovedUnderFilter ==
  /\ pc = "run"
  /\ model.step = stateInstance
  /\ model.filter = kB
  /\ model.filteredInstances = <<sI1Web, sI2Db>>
  /\ model.cursor = 1
  /\ Update(model, KeyMsg(kDown)).m.cursor = 1
  /\ Update(model, KeyMsg(kUp)).m.cursor = 0

kSpace == <<32>>                                          \* " "
kTilde == <<126>>                                         \* "~"

\* The keys Update is tried on: those of AllKeys, the two ends of the
\* printable range and letters of both cases.
EditTestKeys == AllKeys \cup {kSpace, kTilde, kA, kUpperA}

\* C26: filter editing. On every selection stage, not loading, Update on a
\* key that is one character of codes 32 to 126, unless it is "j" or "k"
\* with the query empty (navigation), appends exactly that character to the
\* query; on backspace it removes the last character of a non-empty query
\* and leaves an empty one empty; on every other key (named or multi-byte)
\* it leaves the query as it is.
FilterEditing ==
  (~model.loading /\ model.step \in {stateProfile, stateRegion, stateInstance}) =>
    \A s \in EditTestKeys :
      LET f == Update(model, KeyMsg(s)).m.filter
          single == Len(s) = 1 /\ s[1] \in 32..126
          navigation == s \in {kJ, kK} /\ model.filter = <<>>
      IN IF s = kBackspace
         THEN f = IF model.filter = <<>> THEN <<>>
                  ELSE SubSeq(model.filter, 1, Len(model.filter) - 1)
         ELSE IF single
         THEN navigation \/ f = model.filter \o s
         ELSE f = model.filter

\* C26 witness: on RegionSelect the query "pd" has been typed; backspace
\* would leave "p", and the named key "up" leaves the query alone.
QueryTyped ==
  /\ pc = "run"
  /\ model.step = stateRegion
  /\ ~model.loading
  /\ model.filter = kP \o kD
  /\ Update(model, KeyMsg(kBackspace)).m.filter = kP
  /\ Update(model, KeyMsg(kUp)).m.filter = kP \o kD

\* A stage-transition fetch that has been dispatched and whose result the
\* loop has not yet processed.
ListPending(t) ==
  t.kind \in {"regions", "instances"} /\ (t.sel = "waiting" \/ t.out # NoMsg)

PendingLists == {i \in 1..MaxTasks : ListPending(tasks[i])}

\* While the loop runs, loading is set exactly when one list fetch is
\* pending, and never more than one is.
LoadingIffPending ==
  pc = "run" =>
    /\ Cardinality(PendingLists) <= 1
    /\ model.loading <=> Cardinality(PendingLists) = 1

\* A step of the loop that processes a list result finds loading set and
\* the stage the fetch was dispatched from.
ResultWhileLoading ==
  \A i \in 1..MaxTasks :
    (ListPending(tasks[i]) /\ ~ListPending(tasks'[i]) /\ pc' = "run") =>
      /\ model.loading
      /\ tasks[i].kind = "regions" => model.step = stateProfile
      /\ tasks[i].kind = "instances" => model.step = stateRegion

\* C27: the loading flag tracks the outstanding fetch. In every state of the
\* running loop loading is true if and only if exactly one stage-transition
\* fetch is dispatched and unprocessed; at most one is in flight; and a
\* region-list (instance-list) result is processed only with loading true
\* on ProfileSelect (RegionSelect).
LoadingTracksFetch == []LoadingIffPending /\ [][ResultWhileLoading]_vars

\* C27 witness: after a failed region load the operator has confirmed again:
\* loading is set once more and exactly one region fetch is pending.
ReloadPending ==
  /\ pc = "run"
  /\ model.step = stateProfile
  /\ model.err \in ListErrors
  /\ model.loading
  /\ Cardinality(PendingLists) = 1
  /\ \A i \in PendingLists : tasks[i].kind = "regions"

\* C28 (as claimed): in every state of InstanceSelect with a non-empty
\* filtered list, the state right after the instance list is installed
\* included, previewInstanceId is the canonical identifier of the entry at
\* the cursor.
PreviewTracksHighlight ==
  (model.step = stateInstance /\ Len(model.filteredInstances) > 0) =>
    IsCanonicalId(model.previewInstanceId,
                  model.filteredInstances[model.cursor + 1])

\* C30: the worker never blocks on its send. In every state of the running
\* loop a worker whose lookup has not yet returned can send its result and
\* end as soon as it does: its channel is empty, whether its select still
\* waits or has already returned the timeout; and a worker that has sent
\* sends no more.
WorkerNeverBlocks ==
  \A i \in 1..MaxTasks :
    /\ (pc = "run" /\ tasks[i].op = "running") =>
         tasks[i].ch = NoMsg /\ ENABLED WorkerReturn(i)
    /\ tasks[i].op = "done" => ~ENABLED WorkerReturn(i)

\* C30 witness: the deadline fired and the loop has received the timeout
\* message, while the worker's lookup is still running; nobody will read the
\* channel it is about to write.
WorkerOutlivesDeadline ==
  \E i \in 1..MaxTasks :
    /\ pc = "run"
    /\ tasks[i].kind # "free"
    /\ tasks[i].sel = "returned"
    /\ tasks[i].out = NoMsg
    /\ tasks[i].op = "running"
    /\ ENABLED WorkerReturn(i)

\* A key press that changes the state.
KeyArrives == \E s \in LiveKeys : KeyPress(s)

\* On InstanceSelect the preview is at rest on a result of a fetch for the
\* current target.
PreviewSettled ==
  (pc = "run" /\ model.step = stateInstance) =>
    /\ ~model.previewLoading
    /\ model.previewInstanceId # <<>> =>
         \E msg \in PreviewResults(model.previewInstanceId) :
           model.previewTags = msg.tags

\* C29: no load sticks forever. Under fair scheduling of the commands, the
\* timers and the loop, every state with loading true is followed by one
\* with loading false or by the end of the loop; and either key presses keep
\* arriving, or from some point on the preview on InstanceSelect is not
\* loading and holds the tags of a result for the current previewInstanceId.
NoLoadSticks ==
  /\ model.loading ~> (~model.loading \/ pc # "run")
  /\ []<><<KeyArrives>>_vars \/ <>[]PreviewSettled

\* C29 witness: the tag lookup is still running when its 5-unit deadline is
\* reached, with the preview loading on InstanceSelect.
PreviewDeadlineReached ==
  \E i \in 1..MaxTasks :
    /\ pc = "run"
    /\ model.step = stateInstance
    /\ model.previewLoading
    /\ tasks[i].kind = "preview"
    /\ tasks[i].id = model.previewInstanceId
    /\ tasks[i].op = "running"
    /\ tasks[i].sel = "waiting"
    /\ tasks[i].elapsed = PreviewTimeout

====
